---- MODULE Spec2Model ----
(***************************************************************************)
(* Model of sally's pathTree (path_tree.go): a tree of values keyed by     *)
(* '/'-separated paths, with cascading lookup and subtree listing.         *)
(*                                                                         *)
(* Go strings are modelled as sequences of one-character strings, so that  *)
(* slicing, IndexByte and prefix tests are computed and not assumed.       *)
(* A node is identified by its route: the sequence of child names followed *)
(* from the root (the keys of the children maps).  n.children[head] is the *)
(* node at Append(n, head) when it exists, and nil otherwise.              *)
(***************************************************************************)
EXTENDS Integers, Sequences, FiniteSets, TLC

VARIABLES nodes,      \* pathTree.root and all its descendants: route -> node
          countHint,  \* pathTree.countHint
          items,      \* the test state machine's model: path -> latest value
          last,       \* the arguments of the latest Set
          log,        \* the Set calls of the first run, in order
          once,       \* the tree as the first run left it
          runs,       \* the number of runs of log completed
          pos,        \* the position in log of the next call of a re-run
          serving,    \* the build phase is over
          built,      \* the tree and countHint as the build phase left them
          rd          \* the state of each reader's call in progress

tree == <<nodes, countHint, items, last>>
rerun == <<log, once, runs, pos>>
serve == <<serving, built, rd>>
vars == <<nodes, countHint, items, last, log, once, runs, pos, serving, built, rd>>

----------------------------------------------------------------------------
(* Bounds *)

MaxLen == 3       \* longest string of the alphabet
MaxSets == 3      \* number of Set calls in one behaviour
MaxAnySets == 2   \* number of Set calls when any string is passed
MaxLogLen == 2    \* number of Set calls in a sequence that is re-run
MaxReruns == 2    \* number of times a sequence is re-run
MaxBuild == 2     \* number of Set calls of a build phase that is served

Readers == {"r1", "r2"}

Alphabet == {"a", "/"}

\* The values of T: pathTree never inspects a value, two tell a value
\* from the one it replaces.
Values == {1, 2}

\* The zero value of T, returned by Lookup when nothing is found.
ZeroValue == 0

\* A nil pointer; a non-nil pointer to x is <<x>>.
Nil == <<>>

\* The empty string.
Empty == <<>>

\* Every string of at most MaxLen characters.
Strings == UNION {[1..n -> Alphabet] : n \in 0..MaxLen}

\* A path as the tests draw it, [a-zA-Z0-9_]+(/[a-zA-Z0-9_]+)*, or the empty
\* path of the root: non-empty components separated by single '/'.
IsPath(p) ==
    \/ p = Empty
    \/ /\ p[1] # "/"
       /\ p[Len(p)] # "/"
       /\ \A i \in 1..(Len(p) - 1) : ~(p[i] = "/" /\ p[i + 1] = "/")

Paths == {p \in Strings : IsPath(p)}

\* p with the separator at position i doubled.
WithSeparatorDoubled(p, i) == SubSeq(p, 1, i) \o <<"/">> \o SubSeq(p, i + 1, Len(p))

\* Every string of at most MaxLen characters, and every path with one of
\* its separators doubled.
AnyStrings ==
    Strings \cup UNION {{WithSeparatorDoubled(p, i) :
                            i \in {j \in 1..Len(p) : p[j] = "/"}} : p \in Paths}

\* The strings passed to Lookup and ListByPath: one character longer, so
\* that every string passed to Set has descendants among them.
Queries == UNION {[1..n -> Alphabet] : n \in 0..(MaxLen + 1)}

----------------------------------------------------------------------------
(* Strings *)

\* strings.IndexByte, 1-based; 0 when c does not occur in p.
IndexByte(p, c) ==
    LET at == {i \in 1..Len(p) : p[i] = c}
    IN IF at = {} THEN 0 ELSE CHOOSE i \in at : \A j \in at : i <= j

\* strings.HasPrefix
HasPrefix(s, prefix) ==
    /\ Len(prefix) <= Len(s)
    /\ SubSeq(s, 1, Len(prefix)) = prefix

\* pathTakeFirst skipping the separators the path begins with.
pathTakeFirstTrim(p) ==
    LET k == CHOOSE k \in 0..Len(p) :
                 /\ \A i \in 1..k : p[i] = "/"
                 /\ k = Len(p) \/ p[k + 1] # "/"
        q == SubSeq(p, k + 1, Len(p))
        idx == IndexByte(q, "/")
    IN IF idx > 0
       THEN <<SubSeq(q, 1, idx - 1), SubSeq(q, idx + 1, Len(q))>>
       ELSE <<q, Empty>>

\* Takes the first component of a path, returning <<head, tail>>.
pathTakeFirst(p) ==
    LET idx == IndexByte(p, "/")
    IN IF idx > 0
       THEN <<SubSeq(p, 1, idx - 1), SubSeq(p, idx + 1, Len(p))>>
       ELSE <<p, Empty>>

----------------------------------------------------------------------------
(* pathTreeNode *)

\* The direct descendants of node n (the values of n.children).
Children(ns, n) ==
    {c \in DOMAIN ns : Len(c) = Len(n) + 1 /\ SubSeq(c, 1, Len(n)) = n}

\* nextPathLen without the count of the preceding '/'.
nextPathLenNoSep(curPathLen, head) == curPathLen + Len(head)

\* The names the loops of set, lookup and get follow for a path, one per
\* iteration: the route of the node the path denotes.
RECURSIVE route(_)
route(path) ==
    IF Len(path) = 0
    THEN <<>>
    ELSE LET ht == pathTakeFirst(path)
         IN <<ht[1]>> \o route(ht[2])

\* The length of origPath[:curPathLen] after descending into head.
nextPathLen(curPathLen, head) ==
    (IF curPathLen > 0 THEN curPathLen + 1 ELSE curPathLen) + Len(head)

\* newNode with the whole of origPath as the path of the node.
newNodeWholePath(head, origPath, curPathLen) ==
    [name |-> head, path |-> origPath, value |-> Nil]

\* A node created by set: no value, no children.
newNode(head, origPath, curPathLen) ==
    [name |-> head, path |-> SubSeq(origPath, 1, curPathLen), value |-> Nil]

\* The loop of pathTreeNode.set, started at node n with the rest of the path.
RECURSIVE setLoop(_, _, _, _, _, _)
setLoop(ns, n, origPath, path, curPathLen, value) ==
    IF Len(path) = 0
    THEN [ns EXCEPT ![n].value = value]
    ELSE LET ht   == pathTakeFirst(path)
             head == ht[1]
             tail == ht[2]
             len  == nextPathLen(curPathLen, head)
             ch   == Append(n, head)
             ns2  == IF ch \in DOMAIN ns
                     THEN ns
                     ELSE (ch :> newNode(head, origPath, len)) @@ ns
         IN setLoop(ns2, ch, origPath, tail, len, value)

\* set putting a new node, without children, in the place of a node that
\* has a value already.
setReplace(ns, path, value) ==
    LET t == setLoop(ns, <<>>, path, path, 0, value)
        had == route(path) \in DOMAIN ns /\ ns[route(path)].value # Nil
        below == {r \in DOMAIN t : /\ Len(r) > Len(route(path))
                                    /\ SubSeq(r, 1, Len(route(path))) = route(path)}
    IN IF had THEN [r \in DOMAIN t \ below |-> t[r]] ELSE t

\* set writing the value also to every descendant that has a value.
setEager(ns, path, value) ==
    LET t == setLoop(ns, <<>>, path, path, 0, value)
    IN [r \in DOMAIN t |->
           IF t[r].value # Nil /\ HasPrefix(t[r].path, path \o <<"/">>)
           THEN [t[r] EXCEPT !.value = value]
           ELSE t[r]]

\* pathTreeNode.set on the root: the tree after setting path to *value.
set(ns, path, value) == setLoop(ns, <<>>, path, path, 0, value)

\* n.children[head]: a pointer to the child of node n named head, or Nil.
child(ns, n, head) ==
    IF Append(n, head) \in DOMAIN ns THEN <<Append(n, head)>> ELSE Nil

\* lookupIter keeping the first node with a value instead of the last.
lookupIterFirst(ns, st) ==
    LET lst2 == IF ns[st.n[1]].value # Nil /\ st.lst = Nil THEN st.n ELSE st.lst
        ht   == pathTakeFirst(st.path)
    IN IF Len(st.path) = 0
       THEN [n |-> st.n, path |-> st.path, lst |-> lst2, brk |-> TRUE]
       ELSE [n    |-> child(ns, st.n[1], ht[1]),
             path |-> ht[2],
             lst  |-> lst2,
             brk  |-> FALSE]

\* One iteration of the loop of pathTreeNode.lookup, entered with n # nil.
\* st holds the locals: n and lst are pointers to nodes, path is the rest of
\* the path, brk tells that the loop was left by break.
lookupIter(ns, st) ==
    LET lst2 == IF ns[st.n[1]].value # Nil THEN st.n ELSE st.lst
        ht   == pathTakeFirst(st.path)
    IN IF Len(st.path) = 0
       THEN [n |-> st.n, path |-> st.path, lst |-> lst2, brk |-> TRUE]
       ELSE [n    |-> child(ns, st.n[1], ht[1]),
             path |-> ht[2],
             lst  |-> lst2,
             brk  |-> FALSE]

\* The loop of pathTreeNode.lookup has ended.
lookupEnded(st) == st.n = Nil \/ st.brk

\* The locals of pathTreeNode.lookup when called on the root.
lookupStart(path) == [n |-> <<<<>>>>, path |-> path, lst |-> Nil, brk |-> FALSE]

\* lookupLoop giving up when a component of the path has no node.
RECURSIVE lookupLoopExact(_, _)
lookupLoopExact(ns, st) ==
    IF lookupEnded(st)
    THEN IF st.brk THEN st.lst ELSE Nil
    ELSE lookupLoopExact(ns, lookupIter(ns, st))

RECURSIVE lookupLoop(_, _)
lookupLoop(ns, st) ==
    IF lookupEnded(st) THEN st.lst ELSE lookupLoop(ns, lookupIter(ns, st))

\* pathTreeNode.lookup on the root: a pointer to the deepest node on the
\* path that has a value, or Nil.
lookup(ns, path) == lookupLoop(ns, lookupStart(path))

\* pathTreeNode.get: a pointer to the node at the path, or Nil.
RECURSIVE get(_, _, _)
get(ns, n, path) ==
    IF n # Nil /\ Len(path) > 0
    THEN LET ht == pathTakeFirst(path)
         IN get(ns, child(ns, n[1], ht[1]), ht[2])
    ELSE n

\* Every order in which "range n.children" may yield the children in S.
Orders(S) ==
    {f \in [1..Cardinality(S) -> S] : \A i, j \in 1..Cardinality(S) :
                                          f[i] = f[j] => i = j}

\* items[k] = v on a Go map.
mapPut(m, k, v) == (k :> v) @@ m

\* One iteration of the loop of pathTreeNode.listByPath: pops the top of the
\* stack next into the map m and pushes its children in the order o.
listIter(ns, next, m, o) ==
    LET n == next[Len(next)]
    IN <<SubSeq(next, 1, Len(next) - 1) \o o,
         IF ns[n].value # Nil
         THEN mapPut(m, ns[n].path, ns[n].value[1])
         ELSE m>>

\* pathTreeNode.listByPath: the set of maps the traversal may produce from
\* the stack next, over every iteration order of the children maps.
RECURSIVE listByPath(_, _, _)
listByPath(ns, next, m) ==
    IF Len(next) = 0
    THEN {m}
    ELSE UNION {listByPath(ns, listIter(ns, next, m, o)[1],
                           listIter(ns, next, m, o)[2]) :
                   o \in Orders(Children(ns, next[Len(next)]))}

----------------------------------------------------------------------------
(* pathTree *)

\* The return of pathTree.Lookup, n being the result of lookup.
lookupReturn(ns, n) ==
    IF n = Nil \/ ns[n[1]].value = Nil
    THEN [found |-> Empty, v |-> ZeroValue, ok |-> FALSE]
    ELSE [found |-> ns[n[1]].path, v |-> ns[n[1]].value[1], ok |-> TRUE]

\* pathTree.Lookup
Lookup(ns, path) ==
    lookupReturn(ns, lookup(ns, path))

\* listRoot starting from the nearest ancestor that has a value.
listRootInherit(ns, path) ==
    IF path # Empty THEN lookup(ns, path) ELSE <<<<>>>>

\* The node pathTree.ListByPath starts from: a pointer, or Nil.
listRoot(ns, path) ==
    IF path # Empty THEN get(ns, <<<<>>>>, path) ELSE <<<<>>>>

\* pathTree.ListByPath: the set of results the call may return.  A result
\* is a nil map or a map from paths to values.
ListByPath(ns, path) ==
    LET n == listRoot(ns, path)
    IN IF n = Nil
       THEN {[isNil |-> TRUE, m |-> <<>>]}
       ELSE {[isNil |-> FALSE, m |-> m] : m \in listByPath(ns, <<n[1]>>, <<>>)}

\* The zero value of pathTree: a root without name, path, value or children.
ZeroTree == (<<>> :> [name |-> Empty, path |-> Empty, value |-> Nil])

----------------------------------------------------------------------------
(* Operations *)

\* pathTree.Set, with the bookkeeping of pathTreeStateMachine.Set.
Set(path, value) ==
    /\ countHint' = countHint + 1
    /\ nodes' = set(nodes, path, <<value>>)
    /\ items' = mapPut(items, path, value)
    /\ last' = <<path, value>>

Init ==
    /\ nodes = ZeroTree
    /\ countHint = 0
    /\ items = <<>>
    /\ last = <<>>
    /\ log = <<>>
    /\ once = ZeroTree
    /\ runs = 0
    /\ pos = 0
    /\ serving = FALSE
    /\ built = <<ZeroTree, 0>>
    /\ rd = [r \in Readers |-> [pc |-> "idle"]]

----------------------------------------------------------------------------
(* Set called with paths, as the tests do *)

SetPath(path, value) ==
    /\ countHint < MaxSets
    /\ Set(path, value)
    /\ UNCHANGED <<rerun, serve>>

Next == \E p \in Paths, v \in Values : SetPath(p, v)

Spec == Init /\ [][Next]_vars

----------------------------------------------------------------------------
(* Set called with any string *)

SetAny(path, value) ==
    /\ countHint < MaxAnySets
    /\ Set(path, value)
    /\ UNCHANGED <<rerun, serve>>

NextAny == \E p \in AnyStrings, v \in Values : SetAny(p, v)

SpecAny == Init /\ [][NextAny]_vars

----------------------------------------------------------------------------
(* A sequence of Set calls, run once and then run again *)

\* A call of the first run.
Assign(path, value) ==
    /\ runs = 0
    /\ Len(log) < MaxLogLen
    /\ Set(path, value)
    /\ log' = Append(log, <<path, value>>)
    /\ UNCHANGED <<once, runs, pos, serve>>

\* The first run is complete.
EndFirstRun ==
    /\ runs = 0
    /\ Len(log) > 0
    /\ once' = nodes
    /\ runs' = 1
    /\ pos' = 1
    /\ UNCHANGED <<tree, log, serve>>

\* The next call of a re-run of log.
Replay ==
    /\ runs >= 1
    /\ runs <= MaxReruns
    /\ Set(log[pos][1], log[pos][2])
    /\ IF pos = Len(log)
       THEN runs' = runs + 1 /\ pos' = 1
       ELSE runs' = runs /\ pos' = pos + 1
    /\ UNCHANGED <<log, once, serve>>

NextRerun ==
    \/ \E p \in Paths, v \in Values : Assign(p, v)
    \/ EndFirstRun
    \/ Replay

SpecRerun == Init /\ [][NextRerun]_vars

----------------------------------------------------------------------------
(* A build phase followed by concurrent readers *)

\* config.Packages: the package configured for each name.  Which names are
\* configured is left open; a name's package is the length of the name.
Packages == [name \in Paths |-> Len(name)]

\* A Set call of the build phase: one iteration of the loop of CreateHandler
\* over the map config.Packages, which yields every name once.
Build(path) ==
    /\ ~serving
    /\ countHint < MaxBuild
    /\ path \notin DOMAIN items
    /\ Set(path, Packages[path])
    /\ UNCHANGED <<rerun, serve>>

\* The build phase ends: the handler is handed to the HTTP server.
StartServe ==
    /\ ~serving
    /\ serving' = TRUE
    /\ built' = <<nodes, countHint>>
    /\ UNCHANGED <<tree, rerun, rd>>

\* Reader r calls pathTree.Lookup.
StartLookup(r, path) ==
    /\ serving
    /\ rd[r].pc = "idle"
    /\ rd' = [rd EXCEPT ![r] = [pc |-> "lookup", path |-> path,
                                st |-> lookupStart(path)]]
    /\ UNCHANGED <<tree, rerun, serving, built>>

\* StepLookup storing the inherited value in a node that has none.
StepLookupCaching(r) ==
    /\ rd[r].pc = "lookup"
    /\ ~lookupEnded(rd[r].st)
    /\ rd' = [rd EXCEPT ![r].st = lookupIter(nodes, rd[r].st)]
    /\ nodes' = IF nodes[rd[r].st.n[1]].value = Nil /\ rd[r].st.lst # Nil
                THEN [nodes EXCEPT ![rd[r].st.n[1]].value =
                                       nodes[rd[r].st.lst[1]].value]
                ELSE nodes
    /\ UNCHANGED <<countHint, items, last, rerun, serving, built>>

\* Reader r runs one iteration of the loop of pathTreeNode.lookup.
StepLookup(r) ==
    /\ rd[r].pc = "lookup"
    /\ ~lookupEnded(rd[r].st)
    /\ rd' = [rd EXCEPT ![r].st = lookupIter(nodes, rd[r].st)]
    /\ UNCHANGED <<tree, rerun, serving, built>>

\* Reader r leaves the loop and returns from pathTree.Lookup.
ReturnLookup(r) ==
    /\ rd[r].pc = "lookup"
    /\ lookupEnded(rd[r].st)
    /\ rd' = [rd EXCEPT ![r] = [pc |-> "done", op |-> "Lookup",
                                path |-> rd[r].path,
                                res |-> lookupReturn(nodes, rd[r].st.lst)]]
    /\ UNCHANGED <<tree, rerun, serving, built>>

\* Reader r calls pathTree.ListByPath: finds the node and makes the map.
StartListByPath(r, path) ==
    /\ serving
    /\ rd[r].pc = "idle"
    /\ rd' = [rd EXCEPT ![r] =
                 IF listRoot(nodes, path) = Nil
                 THEN [pc |-> "done", op |-> "ListByPath", path |-> path,
                       res |-> [isNil |-> TRUE, m |-> <<>>]]
                 ELSE [pc |-> "list", path |-> path,
                       next |-> <<listRoot(nodes, path)[1]>>, m |-> <<>>]]
    /\ UNCHANGED <<tree, rerun, serving, built>>

\* Reader r runs one iteration of the loop of pathTreeNode.listByPath.
StepListByPath(r) ==
    /\ rd[r].pc = "list"
    /\ Len(rd[r].next) > 0
    /\ \E o \in Orders(Children(nodes, rd[r].next[Len(rd[r].next)])) :
           rd' = [rd EXCEPT ![r].next = listIter(nodes, rd[r].next, rd[r].m, o)[1],
                            ![r].m = listIter(nodes, rd[r].next, rd[r].m, o)[2]]
    /\ UNCHANGED <<tree, rerun, serving, built>>

\* Reader r returns from pathTree.ListByPath.
ReturnListByPath(r) ==
    /\ rd[r].pc = "list"
    /\ Len(rd[r].next) = 0
    /\ rd' = [rd EXCEPT ![r] = [pc |-> "done", op |-> "ListByPath",
                                path |-> rd[r].path,
                                res |-> [isNil |-> FALSE, m |-> rd[r].m]]]
    /\ UNCHANGED <<tree, rerun, serving, built>>

\* Reader r has used the result and is ready for its next request.
Finish(r) ==
    /\ rd[r].pc = "done"
    /\ rd' = [rd EXCEPT ![r] = [pc |-> "idle"]]
    /\ UNCHANGED <<tree, rerun, serving, built>>

NextServe ==
    \/ \E p \in Paths : Build(p)
    \/ StartServe
    \/ \E r \in Readers, p \in Paths : StartLookup(r, p)
    \/ \E r \in Readers : StepLookup(r)
    \/ \E r \in Readers : ReturnLookup(r)
    \/ \E r \in Readers, p \in Paths : StartListByPath(r, p)
    \/ \E r \in Readers : StepListByPath(r)
    \/ \E r \in Readers : ReturnListByPath(r)
    \/ \E r \in Readers : Finish(r)

SpecServe == Init /\ [][NextServe]_vars

----------------------------------------------------------------------------
(* Properties of Spec: Set called with paths *)

\* parent/name
Join(parent, name) == parent \o <<"/">> \o name

\* q is p or an ancestor of p: the root, or a prefix of p that ends where
\* a separator of p begins.
IsAncestorOrSelf(q, p) == q = p \/ q = Empty \/ HasPrefix(p, Join(q, Empty))

\* The assigned paths that are p or an ancestor of p.
AssignedAbove(p) == {q \in DOMAIN items : IsAncestorOrSelf(q, p)}

\* The longest string of a non-empty set of prefixes of one string.
Longest(S) == CHOOSE q \in S : \A r \in S : Len(r) <= Len(q)

\* C1: after any sequence of Set calls, every path p that was assigned is
\* found by Lookup(p), matched at p itself, with the value assigned at p last.
C1_AssignedIsFoundExactly ==
    \A p \in DOMAIN items :
        Lookup(nodes, p) = [found |-> p, v |-> items[p], ok |-> TRUE]

\* Three calls, one of them overwriting a nested path.
C1_Witness ==
    /\ countHint = 3
    /\ DOMAIN items = {<<"a">>, <<"a", "/", "a">>}
    /\ last = <<<<"a", "/", "a">>, 2>>
    /\ Lookup(nodes, <<"a", "/", "a">>).v = 2

\* C2: Lookup(p) finds the nearest assigned ancestor of p or p itself, the
\* deepest one winning, with its path and latest value; it finds nothing
\* exactly when neither p nor an ancestor of p, root included, is assigned.
C2_LongestPrefixMatch ==
    \A p \in Queries :
        IF AssignedAbove(p) = {}
        THEN Lookup(nodes, p) = [found |-> Empty, v |-> ZeroValue, ok |-> FALSE]
        ELSE Lookup(nodes, p) = [found |-> Longest(AssignedAbove(p)),
                                 v |-> items[Longest(AssignedAbove(p))],
                                 ok |-> TRUE]

\* A descendant's value wins over its parent's and the root's.
C2_Witness ==
    /\ DOMAIN items = {Empty, <<"a">>, <<"a", "/", "a">>}
    /\ items[<<"a">>] # items[<<"a", "/", "a">>]
    /\ Lookup(nodes, <<"a", "/", "a", "/", "a">>).found = <<"a", "/", "a">>
    /\ Lookup(nodes, <<"a", "a">>).found = Empty

\* The assigned paths at or below p; every assigned path when p is empty.
AssignedBelow(p) ==
    {q \in DOMAIN items : p = Empty \/ q = p \/ HasPrefix(q, Join(p, Empty))}

\* C3: ListByPath(p) returns exactly the assigned paths q with q = p or q
\* beginning with p/, each with its latest value (all of them for the empty
\* path); pure intermediate nodes are left out and an ancestor's value is
\* not inherited, so the result is empty when no node exists at p.
C3_ListIsAssignedSubtree ==
    \A p \in Queries :
        IsPath(p) =>
            \A r \in ListByPath(nodes, p) :
                r.m = [q \in AssignedBelow(p) |-> items[q]]

\* a/a is listed below a, which is a pure intermediate node; nothing is
\* listed at aa/a, where no node exists although the root has a value.
C3_Witness ==
    /\ DOMAIN items = {Empty, <<"a", "/", "a">>, <<"a", "a">>}
    /\ nodes[<<<<"a">>>>].value = Nil
    /\ \A r \in ListByPath(nodes, <<"a">>) : DOMAIN r.m = {<<"a", "/", "a">>}
    /\ \A r \in ListByPath(nodes, <<"a", "a", "/", "a">>) : r.m = <<>>
    /\ \A r \in ListByPath(nodes, Empty) : DOMAIN r.m = DOMAIN items

\* C4 as stated: when Lookup(p) finds a value for a path p that is not
\* assigned itself, p begins with matchedPath followed by '/'.
C4_MatchIsFollowedBySeparator ==
    \A p \in Queries :
        (IsPath(p) /\ p \notin DOMAIN items /\ Lookup(nodes, p).ok) =>
            HasPrefix(p, Join(Lookup(nodes, p).found, Empty))

\* C4, amended: when Lookup(p) finds a value for a string p that is not
\* assigned itself, matchedPath is a strict prefix of p that is either
\* empty (the value of the root) or followed in p by '/'.
C4_MatchIsRootOrFollowedBySeparator ==
    \A p \in Queries :
        (p \notin DOMAIN items /\ Lookup(nodes, p).ok) =>
            /\ Lookup(nodes, p).found # p
            /\ \/ Lookup(nodes, p).found = Empty
               \/ HasPrefix(p, Join(Lookup(nodes, p).found, Empty))

\* The root and a are assigned; a/a inherits from a, and aa from the root.
C4_Witness ==
    /\ DOMAIN items = {Empty, <<"a">>}
    /\ Lookup(nodes, <<"a", "/", "a">>).found = <<"a">>
    /\ Lookup(nodes, <<"a", "a">>).ok
    /\ Lookup(nodes, <<"a", "a">>).found = Empty

IsBetween(q, parent, desc) ==
    HasPrefix(q, Join(parent, Empty)) /\ HasPrefix(desc, Join(q, Empty))

IsReassign == countHint' = countHint + 1 /\ last'[1] \in DOMAIN items

\* C6 as stated: Assign(p, v2) on an assigned path p makes Lookup(p) return
\* v2, leaves Lookup(q) as it was for every other q, and keeps the set of
\* nodes.
C6_ReassignChangesOnlyItsPath ==
    [][IsReassign =>
          /\ Lookup(nodes', last'[1]).v = last'[2]
          /\ \A q \in Queries \ {last'[1]} :
                 Lookup(nodes', q) = Lookup(nodes, q)
          /\ DOMAIN nodes' = DOMAIN nodes]_vars

\* C6, amended: Assign(p, v2) on an assigned path p makes Lookup(p) return
\* v2 and keeps the set of nodes; Lookup(q) is as it was for every q that
\* Lookup did not match at p, and for every q it matched at p only the
\* value changes, to v2.
C6_ReassignChangesWhatItMatched ==
    [][IsReassign =>
          /\ Lookup(nodes', last'[1]).v = last'[2]
          /\ \A q \in Queries :
                 Lookup(nodes', q) =
                     IF Lookup(nodes, q).ok /\ Lookup(nodes, q).found = last'[1]
                     THEN [Lookup(nodes, q) EXCEPT !.v = last'[2]]
                     ELSE Lookup(nodes, q)
          /\ DOMAIN nodes' = DOMAIN nodes]_vars

\* a was assigned 1 and then 2, with a/a assigned below it: a/aa inherits
\* the new value while a/a keeps its own.
C6_Witness ==
    /\ countHint = 3
    /\ last = <<<<"a">>, 2>>
    /\ DOMAIN items = {<<"a">>, <<"a", "/", "a">>}
    /\ items[<<"a", "/", "a">>] = 1
    /\ Lookup(nodes, <<"a", "/", "a", "a">>).v = 2
    /\ Lookup(nodes, <<"a", "/", "a">>).v = 1

----------------------------------------------------------------------------
(* Properties of SpecAny: Set called with any string *)

\* The '/'-join of the names on the route r.
RECURSIVE JoinAll(_)
JoinAll(r) ==
    IF Len(r) = 0 THEN Empty
    ELSE IF Len(r) = 1 THEN r[1]
    ELSE Join(JoinAll(SubSeq(r, 1, Len(r) - 1)), r[Len(r)])

\* C10: whatever strings Set was called with, the path stored in every
\* node but the root is the path of its parent joined by '/' with its own
\* name, that is the '/'-join of the names on the route from the root.
C10_PathIsJoinOfNames ==
    \A r \in DOMAIN nodes :
        r # <<>> =>
            /\ nodes[r].name = r[Len(r)]
            /\ nodes[r].path = JoinAll(r)
            /\ Len(r) > 1 =>
                   nodes[r].path =
                       Join(nodes[SubSeq(r, 1, Len(r) - 1)].path, nodes[r].name)

\* The value pointer stored in the node a string denotes; Nil without node.
Stored(ns, t) == IF route(t) \in DOMAIN ns THEN ns[route(t)].value ELSE Nil

\* This step is a Set call.
IsSet == countHint' = countHint + 1

\* Set on s leaves alone what t denotes, a node of its own.
LeavesAlone(s, t) ==
    /\ route(s) # route(t)
    /\ Stored(nodes', t) = Stored(nodes, t)
    /\ Lookup(nodes', t) = Lookup(nodes, t)
    /\ ListByPath(nodes', t) = ListByPath(nodes, t)

\* x has a character other than '/'.
IsNamed(x) == \E i \in 1..Len(x) : x[i] # "/"

\* The strings t such that {s, t} is {"/x", "x"} or {"x//y", "x/y"} for some
\* strings x and y, which have a character other than '/' when named is set.
EmptyNamePartners(s, named) ==
    LET ok(x) == ~named \/ IsNamed(x)
        tl(i) == SubSeq(s, i, Len(s))
        hd(i) == SubSeq(s, 1, i)
    IN {<<"/">> \o x : x \in {x \in {s} : ok(x)}}
       \cup {tl(2) : i \in {i \in {1} : Len(s) > 0 /\ s[1] = "/" /\ ok(tl(2))}}
       \cup {hd(i) \o <<"/">> \o tl(i + 1) :
                 i \in {i \in 1..Len(s) :
                            s[i] = "/" /\ ok(hd(i - 1)) /\ ok(tl(i + 1))}}
       \cup {hd(i) \o tl(i + 2) :
                 i \in {i \in 1..(Len(s) - 1) :
                            /\ s[i] = "/" /\ s[i + 1] = "/"
                            /\ ok(hd(i - 1)) /\ ok(tl(i + 2))}}

\* The strings t such that {s, t} is {"x/", "x"} for some string x, which
\* is not empty and does not end in '/' when unslashed is set.
TrailingPartners(s, unslashed) ==
    LET ok(x) == ~unslashed \/ (x # Empty /\ x[Len(x)] # "/")
    IN {s \o <<"/">> : x \in {x \in {s} : ok(x)}}
       \cup {SubSeq(s, 1, Len(s) - 1) :
                 i \in {i \in {1} : /\ Len(s) > 0
                                     /\ s[Len(s)] = "/"
                                     /\ ok(SubSeq(s, 1, Len(s) - 1))}}

\* C5 as stated: for all strings x and y, "x/", "/x" and "x//y" denote
\* other nodes than "x", "x" and "x/y"; Set on one of a pair changes neither
\* the value stored at the other nor its Lookup and ListByPath results.
C5_SeparatorVariantsAreDistinct ==
    [][IsSet =>
          \A t \in EmptyNamePartners(last'[1], FALSE)
                       \cup TrailingPartners(last'[1], FALSE) :
              LeavesAlone(last'[1], t)]_vars

\* C5, amended: every string is a legal path; for all x and y that have a
\* character other than '/', "/x" and "x//y" denote other nodes than "x" and
\* "x/y", and Set on one of a pair changes neither the value stored at the
\* other nor its Lookup and ListByPath results; a single trailing '/' yields
\* no component: for every non-empty x not ending in '/', "x/" denotes the
\* node of "x", and Set on either overwrites the value stored at the other.
C5_EmptyNamesAreDistinctButTrailing ==
    [][IsSet =>
          /\ \A t \in EmptyNamePartners(last'[1], TRUE) : LeavesAlone(last'[1], t)
          /\ \A t \in TrailingPartners(last'[1], TRUE) :
                 /\ route(t) = route(last'[1])
                 /\ Stored(nodes', t) = <<last'[2]>>]_vars

\* a//a was set after a/a, and a/a kept its value.
C5_Witness ==
    /\ last = <<<<"a", "/", "/", "a">>, 2>>
    /\ DOMAIN items = {<<"a", "/", "a">>, <<"a", "/", "/", "a">>}
    /\ Lookup(nodes, <<"a", "/", "a">>).v = 1
    /\ Lookup(nodes, <<"a", "/", "/", "a">>).v = 2
    /\ <<<<"a">>, <<>>, <<"a">>>> \in DOMAIN nodes

----------------------------------------------------------------------------
(* Properties of SpecRerun *)

\* Lookup and ListByPath cannot tell the trees ns and ms apart.
SameObservations(ns, ms) ==
    \A q \in Queries :
        /\ Lookup(ns, q) = Lookup(ms, q)
        /\ ListByPath(ns, q) = ListByPath(ms, q)

\* C9: after the sequence of Set calls was run again on the same tree, once
\* or several times, every Lookup and ListByPath returns what it returned
\* after the first run.
C9_RerunIsIdempotent ==
    (runs >= 2 /\ pos = 1) => SameObservations(nodes, once)

\* A sequence that overwrites a was re-run twice.
C9_Witness ==
    /\ runs = 3
    /\ pos = 1
    /\ log = <<<<<<"a">>, 1>>, <<<<"a">>, 2>>>>
    /\ countHint = 6
    /\ Lookup(nodes, <<"a", "/", "a">>).v = 2

----------------------------------------------------------------------------
(* Properties of SpecServe *)

\* C8: Lookup and ListByPath never modify the tree: while readers run, the
\* nodes and countHint stay as the build phase left them, and every call,
\* however it is interleaved with the calls of other readers, returns what
\* it returns when run alone on the built tree.
C8_ReadersLeaveTreeAlone ==
    serving =>
        /\ <<nodes, countHint>> = built
        /\ \A r \in Readers :
               rd[r].pc = "done" =>
                   IF rd[r].op = "Lookup"
                   THEN rd[r].res = Lookup(built[1], rd[r].path)
                   ELSE rd[r].res \in ListByPath(built[1], rd[r].path)

\* One reader has listed two entries while the other is half way through
\* a lookup that has passed a node with a value.
C8_Witness ==
    /\ serving
    /\ rd["r1"].pc = "done"
    /\ rd["r1"].op = "ListByPath"
    /\ Cardinality(DOMAIN rd["r1"].res.m) = 2
    /\ rd["r2"].pc = "lookup"
    /\ rd["r2"].st.lst # Nil
    /\ ~lookupEnded(rd["r2"].st)

====
